---- MODULE Spec2Model ----
(***************************************************************************)
(* Model of oceanmodes/baroclinic.py: one call of                          *)
(* neutral_modes_from_N2_profile(z, N2, f0, depth=None, **kwargs).         *)
(*                                                                         *)
(* Arrays are functions on 0..n-1, so that every index is the index the    *)
(* source uses.  Real numbers are exact rationals [n, d] (d > 0, lowest    *)
(* terms); the entries of N2 and of the deformation radii are floats that  *)
(* may also be nan or +-inf: [k, n, d] with k in "fin", "nan", "inf".      *)
(***************************************************************************)
EXTENDS Integers, Sequences, FiniteSets, TLC

\* ---------------------------------------------------------------- bounds
\* longest profile (number of depth samples) handed to the call
MaxLen == 3
\* most eigenpairs the eigensolver returns in one call
MaxEig == 2

\* ------------------------------------------------------------- rationals
Abs(x) == IF x < 0 THEN -x ELSE x

RECURSIVE GCD(_, _)
GCD(a, b) == IF b = 0 THEN a ELSE GCD(b, a % b)

\* the rational n/d in lowest terms with a positive denominator (d # 0)
Q(n, d) ==
  LET g == GCD(Abs(n), Abs(d))
      s == IF d < 0 THEN -1 ELSE 1
  IN  [n |-> (s * n) \div g, d |-> (s * d) \div g]

R(i) == [n |-> i, d |-> 1]
QAdd(a, b) == Q(a.n * b.d + b.n * a.d, a.d * b.d)
QNeg(a) == [n |-> -a.n, d |-> a.d]
QSub(a, b) == QAdd(a, QNeg(b))
QMul(a, b) == Q(a.n * b.n, a.d * b.d)
\* x**-1 of a nonzero x
QInv(a) == Q(a.d, a.n)
QLt(a, b) == a.n * b.d < b.n * a.d
QLe(a, b) == a.n * b.d <= b.n * a.d
QHalf(a) == Q(a.n, 2 * a.d)

\* ---------------------------------------------------------------- floats
Fin(q) == [k |-> "fin", n |-> q.n, d |-> q.d]
NaN == [k |-> "nan", n |-> 0, d |-> 1]
\* +inf (s = 1) or -inf (s = -1)
Inf(s) == [k |-> "inf", n |-> s, d |-> 1]
Val(x) == [n |-> x.n, d |-> x.d]
IsFinite(x) == x.k = "fin"

\* ---------------------------------------------------------------- arrays
Len0(a) == Cardinality(DOMAIN a)
Last(a) == a[Len0(a) - 1]
Arrays(S, n) == [0..(n - 1) -> S]
ArraysUpTo(S, n) == UNION {Arrays(S, m) : m \in 0..n}
\* np.diff of a numeric array: out[i] = a[i+1] - a[i]
Diff(a) == [i \in 0..(Len0(a) - 2) |-> QSub(a[i + 1], a[i])]

\* the k-th smallest element (k = 0, 1, ...) of a finite set of integers
Nth(S, k) == CHOOSE x \in S : Cardinality({y \in S : y < x}) = k

\* ------------------------------------- _maybe_truncate_above_topography
\* np.ma.masked_invalid(f).mask: TRUE where the entry is nan or inf
MaskedInvalid(f) == [i \in DOMAIN f |-> ~IsFinite(f[i])]
\* fm.mask.sum()
MaskSum(mask) == Cardinality({i \in DOMAIN mask : mask[i]})
\* np.diff(fm.mask).sum(): for booleans diff is "differs from its neighbour"
DiffMaskSum(mask) ==
  Cardinality({i \in 0..(Len0(mask) - 2) : mask[i + 1] # mask[i]})

\* a mask check that takes the edge count of a mask with no edge at all
MaskCheckFails_NoEdge(mask) == Last(mask) /\ DiffMaskSum(mask) # 0
\* the condition of line 23
MaskCheckFails(mask) == Last(mask) /\ DiffMaskSum(mask) # 1

\* a[~mask] and fm.compressed(): the unmasked entries in their order
Compress(a, mask) ==
  LET keep == {i \in DOMAIN mask : ~mask[i]}
  IN  [k \in 0..(Cardinality(keep) - 1) |-> a[Nth(keep, k)]]

ErrShape == "z and f must have the same length"
ErrMask == "topographic mask should be monotonic"
ErrConcat == "need at least one array to concatenate"
ErrMonotonic == "z should be monotonically increasing"
ErrDepth == "depth should not be less than maximum z"
\* the ValueErrors the call raises on its input
ValidationErrors == {ErrShape, ErrMask, ErrConcat, ErrMonotonic, ErrDepth}

\* the result of _maybe_truncate_above_topography(z, f): the ValueError it
\* raises ("" for none) or the pair it returns
MaybeTruncate(z, f) ==
  IF Len0(z) # Len0(f) THEN [err |-> ErrShape, z |-> z, f |-> f]
  ELSE LET mask == MaskedInvalid(f)
       IN  IF MaskSum(mask) = 0 THEN [err |-> "", z |-> z, f |-> f]
           ELSE IF MaskCheckFails(mask) THEN [err |-> ErrMask, z |-> z, f |-> f]
           ELSE [err |-> "", z |-> Compress(z, mask), f |-> Compress(f, mask)]

\* ---------------------------------------------------------------- inputs
\* depth samples (unevenly spaced) and N2 samples; nan marks topography
ZVals == {R(1), R(2), R(4)}
N2Vals == {NaN, Fin(R(1)), Fin(R(2))}
\* depth=None, or a total depth
None == [given |-> FALSE, val |-> R(0)]
DepthVals == {None} \cup {[given |-> TRUE, val |-> R(d)] : d \in 2..5}
F0Vals == {R(-2), R(-1), R(1), R(2)}
\* **kwargs: no option, or the number k of eigenpairs wanted
NoKwargs == [o \in {} |-> 0]
KwargsVals == {NoKwargs} \cup {[o \in {"k"} |-> k] : k \in 1..MaxEig}
\* eigenvalues the solver may return: w = -(m*m), 0 and a positive one
EigVals == {R(-4), R(-1), R(0), R(1)}

VARIABLES
  zArg, N2Arg, f0, depthArg, kwargs,  \* the arguments of the call
  pc,         \* position in the call
  err,        \* the exception that ended the call ("" for none)
  z, N2,      \* the truncated profile (locals of the raw function)
  depth,      \* the resolved total depth
  dzc, zf, dzf, dztop, dzbot,
  L,          \* the operator, L[i][j]
  i,          \* loop variable of the assembly loop
  rows,       \* rows of L written so far
  eigsArgs,   \* the sequence of option bags the eigensolver was called with
  wEig, vEig, \* what the eigensolver returned
  w, v,       \* the (real, then sorted) eigenvalues and eigenvector columns
  Ld          \* deformation radii

vars == <<zArg, N2Arg, f0, depthArg, kwargs, pc, err, z, N2, depth, dzc, zf,
          dzf, dztop, dzbot, L, i, rows, eigsArgs, wEig, vEig, w, v, Ld>>

args == <<zArg, N2Arg, f0, depthArg, kwargs>>
grid == <<depth, dzc, zf, dzf, dztop, dzbot>>
eig == <<wEig, vEig, w, v, Ld>>

Empty == [j \in {} |-> R(0)]

\* The arguments of one call.  f0 is read by line 169 alone and kwargs by
\* no line, so every profile and depth is tried with one f0 and no option,
\* and every f0 and option with the profile <<1, 2, 4>> of constant N2.
Init ==
  /\ \/ /\ zArg \in ArraysUpTo(ZVals, MaxLen)
        /\ N2Arg \in ArraysUpTo(N2Vals, MaxLen)
        /\ depthArg \in DepthVals
        /\ f0 = R(1)
        /\ kwargs = NoKwargs
     \/ /\ zArg = [k \in 0..2 |-> IF k = 0 THEN R(1) ELSE R(2 * k)]
        /\ N2Arg = [k \in 0..2 |-> Fin(R(1))]
        /\ depthArg = None
        /\ f0 \in F0Vals
        /\ kwargs \in KwargsVals
  /\ pc = "call"
  /\ err = ""
  /\ z = Empty /\ N2 = Empty
  /\ depth = R(0) /\ dzc = Empty /\ zf = Empty /\ dzf = Empty
  /\ dztop = R(0) /\ dzbot = R(0)
  /\ L = Empty /\ i = 0 /\ rows = {}
  /\ eigsArgs = <<>>
  /\ wEig = Empty /\ vEig = Empty /\ w = Empty /\ v = Empty /\ Ld = Empty

Raise(msg) == pc' = "raised" /\ err' = msg

\* lines 69-70: z, N2 = _maybe_truncate_above_topography(z, N2)
Truncate ==
  /\ pc = "call"
  /\ LET r == MaybeTruncate(zArg, N2Arg)
     IN  IF r.err # ""
         THEN Raise(r.err) /\ UNCHANGED <<z, N2>>
         ELSE z' = r.z /\ N2' = r.f /\ pc' = "raw" /\ UNCHANGED err
  /\ UNCHANGED <<args, grid, L, i, rows, eigsArgs, eig>>

\* ------------------------------------- _neutral_modes_from_N2_profile_raw
\* python indexing: a[k] with k < 0 counts from the end
InRange(a, k) == -Len0(a) <= k /\ k < Len0(a)
At(a, k) == a[IF k < 0 THEN k + Len0(a) ELSE k]

\* line 95: np.all(dzc > 0)
AllPositive(a) == \A k \in DOMAIN a : QLt(R(0), a[k])

\* a depth check that lets a depth equal to the last sample through
DepthCheckFails_Strict(d, zc) == d.given /\ QLt(d.val, Last(zc))
\* line 100: a depth was given and depth <= z[-1]
DepthCheckFails(d, zc) == d.given /\ QLe(d.val, Last(zc))

\* a default depth that adds the whole last spacing
ResolveDepth_FullCell(d, zc, dz) ==
  IF d.given THEN d.val ELSE QAdd(Last(zc), Last(dz))
\* lines 97-98: depth, or z[-1] + dzc[-1]/2 when it is None
ResolveDepth(d, zc, dz) ==
  IF d.given THEN d.val ELSE QAdd(Last(zc), QHalf(Last(dz)))

\* line 107: zf = np.hstack([0, 0.5*(zc[1:]+zc[:-1]), depth])
FacePoints(zc, dep) ==
  LET nz == Len0(zc)
  IN  [k \in 0..nz |->
         IF k = 0 THEN R(0)
         ELSE IF k = nz THEN dep
         ELSE QHalf(QAdd(zc[k], zc[k - 1]))]

\* line 142: lil_matrix((nz+1, nz+1)), all zero
ZeroMatrix(n) == [r \in 0..(n - 1) |-> [c \in 0..(n - 1) |-> R(0)]]

\* lines 76-108 and 142, with the depth check made only after the surface
\* row of the operator has been written
Discretize_LateDepthCheck ==
  /\ pc = "raw"
  /\ LET nz == Len0(z)
     IN  IF nz < 2
         THEN Raise(ErrConcat) /\ UNCHANGED <<grid, L, i, rows>>
         ELSE IF ~AllPositive(Diff(z))
         THEN Raise(ErrMonotonic) /\ UNCHANGED <<grid, L, i, rows>>
         ELSE IF DepthCheckFails(depthArg, z)
         THEN Raise(ErrDepth) /\ rows' = {0} /\ UNCHANGED <<grid, L, i>>
         ELSE LET dep == ResolveDepth(depthArg, z, Diff(z))
                  f == FacePoints(z, dep)
              IN  /\ dzc' = Diff(z)
                  /\ depth' = dep
                  /\ dztop' = z[0]
                  /\ dzbot' = QSub(dep, Last(z))
                  /\ zf' = f
                  /\ dzf' = Diff(f)
                  /\ L' = ZeroMatrix(nz + 1)
                  /\ i' = 1
                  /\ pc' = "loop"
                  /\ UNCHANGED <<err, rows>>
  /\ UNCHANGED <<args, z, N2, eigsArgs, eig>>

\* lines 76-108 and 142: the grid, its checks, and the empty operator.
\* np.hstack of the empty np.diff of a profile of fewer than two samples
\* raises ValueError.
Discretize ==
  /\ pc = "raw"
  /\ LET nz == Len0(z)
     IN  IF nz < 2
         THEN Raise(ErrConcat) /\ UNCHANGED <<grid, L, i>>
         ELSE IF ~AllPositive(Diff(z))
         THEN Raise(ErrMonotonic) /\ UNCHANGED <<grid, L, i>>
         ELSE IF DepthCheckFails(depthArg, z)
         THEN Raise(ErrDepth) /\ UNCHANGED <<grid, L, i>>
         ELSE LET dep == ResolveDepth(depthArg, z, Diff(z))
                  f == FacePoints(z, dep)
              IN  /\ dzc' = Diff(z)
                  /\ depth' = dep
                  /\ dztop' = z[0]
                  /\ dzbot' = QSub(dep, Last(z))
                  /\ zf' = f
                  /\ dzf' = Diff(f)
                  /\ L' = ZeroMatrix(nz + 1)
                  /\ i' = 1
                  /\ pc' = "loop"
                  /\ UNCHANGED err
  /\ UNCHANGED <<args, z, N2, rows, eigsArgs, eig>>

\* (x * y * t)**-1
Inv3(x, y, t) == QInv(QMul(QMul(x, y), t))

\* the indices lines 144-147 use for row k
InteriorIndicesOK(k, df, n2, dc, M) ==
  /\ InRange(df, k - 1) /\ InRange(df, k)
  /\ InRange(n2, k - 1) /\ InRange(n2, k)
  /\ InRange(dc, k - 1)
  /\ InRange(M, k) /\ 0 <= k - 1 /\ k + 2 <= Len0(M)

\* interior coefficients whose diagonal leaves out the lower neighbour
InteriorCoeffs_NoC(k, df, n2, dc) ==
  LET a == Inv3(At(df, k - 1), Val(At(n2, k - 1)), At(dc, k - 1))
      c == Inv3(At(df, k), Val(At(n2, k)), At(dc, k - 1))
  IN  <<a, QNeg(a), c>>
\* lines 144-146: [a, b, c] of row k
InteriorCoeffs(k, df, n2, dc) ==
  LET a == Inv3(At(df, k - 1), Val(At(n2, k - 1)), At(dc, k - 1))
      b == QSub(QNeg(Inv3(At(df, k - 1), Val(At(n2, k - 1)), At(dc, k - 1))),
                Inv3(At(df, k), Val(At(n2, k)), At(dc, k - 1)))
      c == Inv3(At(df, k), Val(At(n2, k)), At(dc, k - 1))
  IN  <<a, b, c>>

\* L[r, c0:c0+len(vals)] = vals
SetSlice(M, r, c0, vals) ==
  [M EXCEPT ![r] = [c \in DOMAIN M[r] |->
     IF c0 <= c /\ c < c0 + Len(vals) THEN vals[c - c0 + 1] ELSE M[r][c]]]

\* lines 143-147: one pass of "for i in range(1, nz)"
AssembleRow ==
  /\ pc = "loop"
  /\ i < Len0(z)
  /\ IF InteriorIndicesOK(i, dzf, N2, dzc, L)
     THEN /\ L' = SetSlice(L, i, i - 1, InteriorCoeffs(i, dzf, N2, dzc))
          /\ rows' = rows \cup {i}
          /\ i' = i + 1
          /\ UNCHANGED <<pc, err>>
     ELSE Raise("IndexError") /\ UNCHANGED <<L, rows, i>>
  /\ UNCHANGED <<args, z, N2, grid, eigsArgs, eig>>

\* lines 148-149, once the loop is over: the surface row
AssembleTop ==
  /\ pc = "loop"
  /\ ~(i < Len0(z))
  /\ IF InRange(dzf, 0) /\ InRange(N2, 0) /\ 2 <= Len0(L)
     THEN LET a == Inv3(At(dzf, 0), Val(At(N2, 0)), dztop)
          IN  /\ L' = SetSlice(L, 0, 0, <<QNeg(a), a>>)
              /\ rows' = rows \cup {0}
              /\ pc' = "bottom"
              /\ UNCHANGED err
     ELSE Raise("IndexError") /\ UNCHANGED <<L, rows>>
  /\ UNCHANGED <<args, z, N2, grid, i, eigsArgs, eig>>

\* lines 150-151: the bottom row
AssembleBottom ==
  /\ pc = "bottom"
  /\ LET nz == Len0(z)
     IN  IF InRange(dzf, nz - 1) /\ InRange(N2, nz - 1) /\ InRange(L, nz)
         THEN LET b == Inv3(At(dzf, nz - 1), Val(At(N2, nz - 1)), dzbot)
              IN  /\ L' = SetSlice(L, nz, Len0(L) - 2, <<b, QNeg(b)>>)
                  /\ rows' = rows \cup {nz}
                  /\ pc' = "eigs"
                  /\ UNCHANGED err
         ELSE Raise("IndexError") /\ UNCHANGED <<L, rows>>
  /\ UNCHANGED <<args, z, N2, grid, i, eigsArgs, eig>>

\* ------------------------------------------------------ the eigensolver
\* the options of the call of line 154: eigs(L, which='SM')
EigsOptions == [o \in {"which"} |-> "SM"]

\* scipy.sparse.linalg.eigs returns as many eigenpairs as its option k
\* says; without the option the number is the solver's own default, which
\* no argument of the call sets
EigsCounts(opts) ==
  IF "k" \in DOMAIN opts THEN {opts["k"]} ELSE 1..MaxEig

\* line 154 and lines 157-161: the solver returns real eigenpairs.  Column
\* c of v is the eigenvector of w[c]; it is recorded as the token c.
EigsReal ==
  /\ pc = "eigs"
  /\ eigsArgs' = Append(eigsArgs, EigsOptions)
  /\ \E nev \in EigsCounts(EigsOptions) :
       \E ws \in Arrays(EigVals, nev) :
         /\ wEig' = ws /\ w' = ws
         /\ vEig' = [c \in 0..(nev - 1) |-> c]
         /\ v' = [c \in 0..(nev - 1) |-> c]
  /\ pc' = "sort"
  /\ UNCHANGED <<args, err, z, N2, grid, L, i, rows, Ld>>

\* lines 158-159: an imaginary part above tol fails assert_allclose
EigsComplex ==
  /\ pc = "eigs"
  /\ eigsArgs' = Append(eigsArgs, EigsOptions)
  /\ Raise("AssertionError")
  /\ UNCHANGED <<args, z, N2, grid, L, i, rows, eig>>

\* line 154: the solver itself raises (no convergence)
EigsFails ==
  /\ pc = "eigs"
  /\ eigsArgs' = Append(eigsArgs, EigsOptions)
  /\ Raise("ArpackNoConvergence")
  /\ UNCHANGED <<args, z, N2, grid, L, i, rows, eig>>

\* ------------------------------------------------------ post-processing
Permutations0(n) ==
  {p \in [0..(n - 1) -> 0..(n - 1)] :
     \A a, b \in 0..(n - 1) : p[a] = p[b] => a = b}

\* np.argsort(w): an index array that sorts w ascending; the order of
\* equal entries is the sort's choice
ArgSorts(ws) ==
  {p \in Permutations0(Len0(ws)) :
     \A a, b \in DOMAIN ws : a < b => QLe(ws[p[a]], ws[p[b]])}

\* p[::-1]
Reversed(p) == [m \in DOMAIN p |-> p[Len0(p) - 1 - m]]

\* line 166: w[j]
TakeW(ws, j) == [m \in DOMAIN j |-> ws[j[m]]]

\* columns left in the order the solver gave them
TakeColumns_Unsorted(vs, j) == vs
\* line 167: v[:, j]
TakeColumns(vs, j) == [m \in DOMAIN j |-> vs[j[m]]]

\* the integer square root of a perfect square
ISqrt(n) == CHOOSE r \in 0..n : r * r = n

\* x**-0.5 in floating point: inf at 0, nan below 0
PowNegHalf(x) ==
  IF x.n > 0 THEN Fin(Q(ISqrt(x.d), ISqrt(x.n)))
  ELSE IF x.n = 0 THEN Inf(1)
  ELSE NaN

\* x / f in floating point, f finite and nonzero
FDiv(x, f) ==
  IF x.k = "fin" THEN Fin(QMul(Val(x), QInv(f)))
  ELSE IF x.k = "inf" THEN Inf(IF f.n < 0 THEN -x.n ELSE x.n)
  ELSE NaN

\* a radius that takes the absolute value of the eigenvalue
DeformationRadius_Abs(wj, f) ==
  FDiv(PowNegHalf([n |-> Abs(wj.n), d |-> wj.d]), f)
\* line 169: (-w)**-0.5 / f0, for one eigenvalue
DeformationRadius(wj, f) == FDiv(PowNegHalf(QNeg(wj)), f)

\* lines 165-171: sort, convert, return
SortAndScale ==
  /\ pc = "sort"
  /\ \E p \in ArgSorts(w) :
       LET j == Reversed(p)
           ws == TakeW(w, j)
       IN  /\ w' = ws
           /\ v' = TakeColumns(v, j)
           /\ Ld' = [m \in DOMAIN ws |-> DeformationRadius(ws[m], f0)]
  /\ pc' = "done"
  /\ UNCHANGED <<args, err, z, N2, grid, L, i, rows, eigsArgs, wEig, vEig>>

Next ==
  \/ Truncate
  \/ Discretize
  \/ AssembleRow
  \/ AssembleTop
  \/ AssembleBottom
  \/ EigsReal
  \/ EigsComplex
  \/ EigsFails
  \/ SortAndScale

Spec == Init /\ [][Next]_vars

\* ================================================================ claims
\* positions of N2 that are not finite
InvalidSet(f) == {k \in DOMAIN f : f[k].k # "fin"}
\* the invalid positions are exactly the last k
TrailingBlock(f, k) == InvalidSet(f) = (Len0(f) - k)..(Len0(f) - 1)
\* the first m entries of an array
Prefix(a, m) == [k \in 0..(m - 1) |-> a[k]]
\* the truncation step has run and did not raise
Truncated == pc # "call" /\ ~(pc = "raised" /\ err \in {ErrShape, ErrMask})
\* x > y in floating point (false when either is nan)
FGt(x, y) ==
  /\ x.k # "nan" /\ y.k # "nan"
  /\ IF x.k = "inf" THEN x.n > 0 /\ ~(y.k = "inf" /\ y.n > 0)
     ELSE IF y.k = "inf" THEN y.n < 0
     ELSE QLt(Val(y), Val(x))

\* C1: a profile of equal lengths whose invalid N2 entries are not exactly
\* the last k positions is rejected by the truncation with a ValueError, and
\* nothing is returned.
C1_NonTrailingMaskRejected ==
  ( /\ pc # "call"
    /\ Len0(zArg) = Len0(N2Arg)
    /\ InvalidSet(N2Arg) # {}
    /\ ~(\E k \in 0..Len0(N2Arg) : TrailingBlock(N2Arg, k)) )
  => (pc = "raised" /\ err = ErrMask)

\* C2: when the invalid entries of an equal-length profile of n samples are
\* exactly the last k, 0 <= k < n, the truncation raises nothing and returns
\* the first n-k entries of both arrays (the arrays themselves for k = 0).
C2_TrailingBlockTruncated ==
  \A k \in 0..(Len0(zArg) - 1) :
    ( /\ pc # "call"
      /\ Len0(zArg) = Len0(N2Arg)
      /\ TrailingBlock(N2Arg, k) )
    => /\ Truncated
       /\ z = Prefix(zArg, Len0(zArg) - k)
       /\ N2 = Prefix(N2Arg, Len0(zArg) - k)

\* C2 witness: a profile with a trailing invalid block has been cut short
C2_Witness ==
  /\ pc = "raw"
  /\ \E k \in 1..(Len0(zArg) - 1) : TrailingBlock(N2Arg, k)
  /\ Len0(z) < Len0(zArg)

\* C3: the options the caller gave reach the eigensolver unchanged, and a
\* call that returns has as many mode columns and as many radii as the
\* number k of eigenpairs the caller asked for.
C3_SolverOptionsPassedThrough ==
  /\ \A c \in DOMAIN eigsArgs : \A o \in DOMAIN kwargs :
       o \in DOMAIN eigsArgs[c] /\ eigsArgs[c][o] = kwargs[o]
  /\ (pc = "done" /\ "k" \in DOMAIN kwargs)
       => (Len0(v) = kwargs["k"] /\ Len0(Ld) = kwargs["k"])

\* C4 as stated: a call that returns has no retained eigenvalue w >= 0 and
\* no radius that is not finite.
C4_NonNegativeEigenvalueRaises ==
  pc = "done" =>
    \A m \in DOMAIN w : QLt(w[m], R(0)) /\ IsFinite(Ld[m])

\* C4 amended: no error follows the solver's return of real eigenpairs; the
\* call returns, and the radius of an eigenvalue w is finite for w < 0,
\* infinite for w = 0 and nan for w > 0.
C4_NonNegativeEigenvalueReturned ==
  /\ pc = "raised" => wEig = Empty
  /\ pc = "done" =>
       /\ DOMAIN Ld = DOMAIN w
       /\ \A m \in DOMAIN w :
            Ld[m].k = (IF QLt(w[m], R(0)) THEN "fin"
                       ELSE IF w[m] = R(0) THEN "inf" ELSE "nan")

\* C4 witness: a call returned with a retained eigenvalue w >= 0
C4_Witness ==
  /\ pc = "done"
  /\ \E m \in DOMAIN w : ~QLt(w[m], R(0))
  /\ \E m \in DOMAIN w : w[m] = R(1)

\* C5 as stated: a given depth <= the last input depth ends the call in a
\* ValueError, also when trailing entries of the profile are invalid.
C5_DepthNotAboveLastInputRaises ==
  ( /\ pc \notin {"call", "raw"}
    /\ depthArg.given
    /\ Len0(zArg) >= 1
    /\ QLe(depthArg.val, Last(zArg)) )
  => (pc = "raised" /\ err \in ValidationErrors)

\* C5 amended: a given depth <= the last depth of the truncated profile
\* ends the call in a ValueError.
C5_DepthNotAboveLastValidRaises ==
  ( /\ pc \notin {"call", "raw"}
    /\ depthArg.given
    /\ Len0(z) >= 1
    /\ QLe(depthArg.val, Last(z)) )
  => (pc = "raised" /\ err \in ValidationErrors)

\* C5 witness: the depth check rejected a depth on a truncated profile
C5_Witness ==
  /\ pc = "raised" /\ err = ErrDepth
  /\ Len0(z) < Len0(zArg)
  /\ depthArg.val = Last(z)

\* C6: the radii a call returns are strictly descending; stated here for
\* the eigenvalues that are negative and pairwise distinct.
C6_RadiiStrictlyDescending ==
  ( /\ pc = "done"
    /\ \A m \in DOMAIN w : QLt(w[m], R(0))
    /\ \A m, n \in DOMAIN w : m # n => w[m] # w[n] )
  => \A m \in DOMAIN Ld : (m + 1) \in DOMAIN Ld => FGt(Ld[m], Ld[m + 1])

\* C7: the face points a call returns are one more than the centers, start
\* at 0, hold the midpoints of adjacent centers, and end at the total depth:
\* the depth given, or the last center plus half the last spacing.
C7_FacePoints ==
  pc = "done" =>
    LET n == Len0(z)
    IN  /\ DOMAIN zf = 0..n
        /\ zf[0] = R(0)
        /\ \A k \in 1..(n - 1) : QAdd(zf[k], zf[k]) = QAdd(z[k - 1], z[k])
        /\ zf[n] = depth
        /\ depthArg.given => depth = depthArg.val
        /\ ~depthArg.given =>
             QAdd(depth, depth)
               = QAdd(QAdd(z[n - 1], z[n - 1]), QSub(z[n - 1], z[n - 2]))

\* C7 witness: a call on a truncated profile returned with an inferred depth
C7_Witness ==
  /\ pc = "done"
  /\ ~depthArg.given
  /\ Len0(z) = 2 /\ Len0(zArg) = 3
  /\ zf[1] # R(1)

\* C8: a ValueError about the input is raised before any row of the
\* operator is written and before the eigensolver is called.
C8_ValidationBeforeAssembly ==
  err \in ValidationErrors => (rows = {} /\ eigsArgs = <<>>)

\* C8 witness: the last of the input checks, the depth check, has raised
C8_Witness == pc = "raised" /\ err = ErrDepth /\ rows = {}

\* the sum of the entries 0..k of a matrix row
RECURSIVE RowSum(_, _)
RowSum(row, k) == IF k < 0 THEN R(0) ELSE QAdd(row[k], RowSum(row, k - 1))

C10_PairsKeptTogether ==
  pc = "done" =>
    /\ DOMAIN w = DOMAIN wEig /\ DOMAIN v = DOMAIN wEig
    /\ DOMAIN Ld = DOMAIN wEig
    /\ {v[m] : m \in DOMAIN v} = {vEig[c] : c \in DOMAIN vEig}
    /\ \A m \in DOMAIN v :
         /\ w[m] = wEig[v[m]]
         /\ Ld[m] = DeformationRadius(wEig[v[m]], f0)
    /\ \A m \in DOMAIN w : (m + 1) \in DOMAIN w => QLe(w[m + 1], w[m])

\* C10 witness: the sort moved a column
C10_Witness ==
  /\ pc = "done"
  /\ Len0(v) >= 2
  /\ v # vEig

====
